---- MODULE Spec2Model ----
(***************************************************************************)
(* Model of the image-culling decision engine (culler.py, utils.py,        *)
(* duplicate_detector.py): duplicate grouping by timestamp bursts, by      *)
(* embedding similarity and by faces, survivor selection, the quality gate *)
(* and the final trim; and of the export of the kept files                 *)
(* (s3_bucket_utils.py).                                                   *)
(*                                                                         *)
(* Images are numbered 1..n in directory-listing order.  Every per-image   *)
(* datum (scores, timestamp, similarity) is drawn from its whole domain,   *)
(* so fixing the listing order loses no case: a different order is the     *)
(* same run with the images renamed.                                       *)
(*                                                                         *)
(* Scores are kept in hundredths (scorer.py rounds to two decimals) and    *)
(* the weights in hundredths as well, so a WeightedScore is an integer in  *)
(* units of 1/10000.  Floating-point rounding of the weighted sum is not   *)
(* modelled.  Similarities are in hundredths too.                          *)
(*                                                                         *)
(* Each function of the pipeline is an action (or a few, one per loop)     *)
(* guarded by pc.  Spec is the whole run of generate_culled_img_list, with *)
(* the burst, the fast and the slow pipeline; the other specifications     *)
(* start one function on its own, on inputs drawn from a wider set than    *)
(* the whole run can afford.                                               *)
(***************************************************************************)
EXTENDS Integers, Sequences, FiniteSets, TLC

(***************************************************************************)
(* Bounds of the model.                                                    *)
(***************************************************************************)
MaxImages == 2         \* images in a whole run (Spec)
MaxPipeTime == 2       \* capture instants of a whole run are 0..MaxPipeTime
MaxBurst == 3          \* images given to group_imgs_by_datetime alone
MaxTime == 3           \* capture instants there are 0..MaxTime seconds
MaxEmbed == 3          \* images given to find_duplicates/group_duplicates alone
MaxSelect == 3         \* images given to find_dups_to_remove alone
MaxGate == 2           \* images given to the quality gate alone
MaxTrim == 4           \* images given to the sort-and-trim alone
MaxMono == 4           \* images given to find_dup_imgs at both thresholds
MaxMonoPairs == 3      \* pairs of them above the lower threshold
MaxFiles == 3          \* entries of the list given to output_files
MaxPeople == 3         \* images in a set given to find_people_duplicates alone
MaxFaces == 3          \* face encodings of one image there

VARIABLES
    pc,                \* position in the code
    \* ---- inputs: arguments and what the external providers return
    image_files,       \* directory listing (sequence of image identifiers)
    exif_of,           \* Timestamp provider: image -> DateTimeOriginal datum
    score_of,          \* Score provider: image -> ScoreVector
    sim,               \* Similarity provider: <<i, j>> (i < j) -> similarity
    cull_to,           \* argument of generate_culled_img_list
    use_exif,          \* argument of generate_culled_img_list
    use_fast_culler,   \* argument of generate_culled_img_list
    scorable,          \* the images score_images finds and scores
    faces,             \* Face provider: image -> list of face encodings
    files_to_output,   \* argument of output_files / upload_files_ordered
    file_state,        \* per entry of that list: what the transfer meets
    \* ---- utils.py, group_imgs_by_datetime
    image_datetimes,   \* the (image, dt) list, here the images only
    groups,            \* groups closed so far
    current_group,     \* the group being filled
    current_time,      \* the anchor of current_group
    idx,               \* loop index i (1-based here)
    \* ---- duplicate_detector.py
    threshold,         \* argument of find_duplicates
    gd,                \* locals of group_duplicates (a record, see GdIdle)
    \* ---- culler.py
    duplicates,        \* the List[List[str]] handed to find_dups_to_remove
    scored_images,     \* keys of the scored_images dict, in dict order
    num_images,
    duplicates_to_remove,
    culled,
    removal_log,       \* the "Removing <key> with low <category> score." lines
    sorted_images,     \* keys of the sorted_images dict, in dict order
    culled_img_list,
    \* ---- culler.py, gen_culled_list_slow and find_people_duplicates
    set_idx,           \* position of "for duplicate_set in duplicates"
    adjacency,         \* the adjacency dict of the current duplicate_set
    people_duplicates,
    \* ---- find_dup_imgs called at both thresholds on one directory
    first_duplicates,  \* what the call at DUPLICATE_THRESHOLD returned
    \* ---- s3_bucket_utils.py, output_files and upload_files_ordered
    fidx,              \* position of the loop over the file list
    all_success,
    transferred        \* the entries copied or uploaded so far, in order

inputs == <<image_files, exif_of, score_of, sim, cull_to, use_exif,
            use_fast_culler, scorable, faces, files_to_output, file_state>>

gid_vars == <<image_datetimes, groups, current_group, current_time, idx>>

gd_vars == <<threshold, gd>>

cull_vars == <<scored_images, num_images, duplicates_to_remove, culled,
               removal_log, sorted_images, culled_img_list>>

fpd_vars == <<set_idx, adjacency, people_duplicates>>

out_vars == <<fidx, all_success, transferred>>

rest_vars == <<fpd_vars, first_duplicates, out_vars>>

vars == <<pc, inputs, gid_vars, gd_vars, duplicates, cull_vars, rest_vars>>

(***************************************************************************)
(* Generic helpers.                                                        *)
(***************************************************************************)
Range(s) == {s[k] : k \in 1..Len(s)}

RECURSIVE Flatten(_)
Flatten(ss) == IF ss = <<>> THEN <<>> ELSE Head(ss) \o Flatten(Tail(ss))

NoRepeat(s) == \A a, b \in 1..Len(s) : s[a] = s[b] => a = b

Iota(n) == [k \in 1..n |-> k]

Abs(x) == IF x < 0 THEN -x ELSE x

\* the repetition-free sequences that enumerate the finite set S
Orderings(S) ==
    {p \in [1..Cardinality(S) -> S] : \A a, b \in DOMAIN p : p[a] = p[b] => a = b}

\* s without the elements of the set S (del dict[key] keeps the dict order)
RECURSIVE Without(_, _)
Without(s, S) ==
    IF s = <<>> THEN <<>>
    ELSE IF Head(s) \in S THEN Without(Tail(s), S)
         ELSE <<Head(s)>> \o Without(Tail(s), S)

\* how many times x occurs in the sequence s
Occurrences(x, s) == Cardinality({k \in 1..Len(s) : s[k] = x})

(***************************************************************************)
(* The values the variables of a function have while it is not running.    *)
(***************************************************************************)
GidIdle ==
    /\ image_datetimes = <<>>
    /\ groups = <<>>
    /\ current_group = <<>>
    /\ current_time = 0
    /\ idx = 0

NoGd ==
    [pairs |-> {}, keys |-> <<>>, adj |-> <<>>, visited |-> {},
     groups |-> <<>>, group |-> <<>>, queue |-> <<>>, pos |-> 0]

GdIdle ==
    /\ threshold = 0
    /\ gd = NoGd

CullIdle ==
    /\ scored_images = <<>>
    /\ num_images = 0
    /\ duplicates_to_remove = <<>>
    /\ culled = <<>>
    /\ removal_log = <<>>
    /\ sorted_images = <<>>
    /\ culled_img_list = <<>>

FpdIdle ==
    /\ set_idx = 0
    /\ adjacency = <<>>
    /\ people_duplicates = <<>>

OutIdle ==
    /\ files_to_output = <<>>
    /\ file_state = <<>>
    /\ fidx = 0
    /\ all_success = TRUE
    /\ transferred = <<>>

RestIdle ==
    /\ FpdIdle
    /\ first_duplicates = <<>>
    /\ OutIdle

\* the unordered pairs of images 1..n, as <<i, j>> with i < j
Pairs(n) == {p \in (1..n) \X (1..n) : p[1] < p[2]}

(***************************************************************************)
(* utils.py, group_imgs_by_datetime.                                       *)
(*                                                                         *)
(* A DateTimeOriginal datum is "none" (no EXIF, no tag, unreadable file),  *)
(* "bad" (a tag strptime rejects) or "ok" with the parsed instant.  The    *)
(* format "%Y:%m:%d %H:%M:%S" has no sub-second field, so a parsed instant *)
(* is a whole number of seconds.                                           *)
(***************************************************************************)
NoStamp == [kind |-> "none", secs |-> 0]

BadStamp == [kind |-> "bad", secs |-> 0]

OkStamps(maxt) == {[kind |-> "ok", secs |-> t] : t \in 0..maxt}

Parseable(f) == exif_of[f].kind = "ok"

Secs(f) == exif_of[f].secs

\* the 1.0 of "time_diff <= 1.0", in seconds
BurstWindow == 1

\* an extraction that skips no image
RECURSIVE ExtractDatetimesKeepAll(_)
ExtractDatetimesKeepAll(fs) ==
    IF fs = <<>> THEN <<>>
    ELSE <<Head(fs)>> \o ExtractDatetimesKeepAll(Tail(fs))

\* lines 139-183: the images whose datum parses, in listing order
RECURSIVE ExtractDatetimes(_)
ExtractDatetimes(fs) ==
    IF fs = <<>> THEN <<>>
    ELSE IF Parseable(Head(fs))
         THEN <<Head(fs)>> \o ExtractDatetimes(Tail(fs))
         ELSE ExtractDatetimes(Tail(fs))

\* list.sort(key=dt) is stable: x goes after every element that is not later
RECURSIVE InsertByTime(_, _)
InsertByTime(x, s) ==
    IF s = <<>> THEN <<x>>
    ELSE IF Secs(Head(s)) <= Secs(x)
         THEN <<Head(s)>> \o InsertByTime(x, Tail(s))
         ELSE <<x>> \o s

RECURSIVE SortByTime(_)
SortByTime(s) ==
    IF s = <<>> THEN <<>>
    ELSE InsertByTime(s[Len(s)], SortByTime(SubSeq(s, 1, Len(s) - 1)))

\* lines 122-195: list, extract, sort, open the first group
GidRead ==
    /\ pc = "gid_read"
    /\ LET sorted == SortByTime(ExtractDatetimes(image_files))
       IN IF sorted = <<>>
          THEN /\ duplicates' = <<>>          \* return [] (lines 136, 187)
               /\ pc' = "score_images"
               /\ UNCHANGED gid_vars
          ELSE /\ image_datetimes' = sorted
               /\ groups' = <<>>
               /\ current_group' = <<sorted[1]>>
               /\ current_time' = Secs(sorted[1])
               /\ idx' = 2
               /\ pc' = "gid_loop"
               /\ UNCHANGED duplicates
    /\ UNCHANGED <<inputs, rest_vars, gd_vars, cull_vars>>

\* a walk that compares with the previous image instead of the anchor:
\* "current_time = dt" on append as well
GidStepChained ==
    /\ pc = "gid_loop"
    /\ idx <= Len(image_datetimes)
    /\ LET image_file == image_datetimes[idx]
           time_diff == Abs(Secs(image_file) - current_time)
       IN IF time_diff <= BurstWindow
          THEN /\ current_group' = Append(current_group, image_file)
               /\ current_time' = Secs(image_file)
               /\ UNCHANGED groups
          ELSE /\ groups' = Append(groups, current_group)
               /\ current_group' = <<image_file>>
               /\ current_time' = Secs(image_file)
    /\ idx' = idx + 1
    /\ UNCHANGED <<pc, inputs, rest_vars, image_datetimes, gd_vars, duplicates, cull_vars>>

\* lines 197-207: one iteration of the walk
GidStep ==
    /\ pc = "gid_loop"
    /\ idx <= Len(image_datetimes)
    /\ LET image_file == image_datetimes[idx]
           time_diff == Abs(Secs(image_file) - current_time)
       IN IF time_diff <= BurstWindow
          THEN /\ current_group' = Append(current_group, image_file)
               /\ UNCHANGED <<groups, current_time>>
          ELSE /\ groups' = Append(groups, current_group)
               /\ current_group' = <<image_file>>
               /\ current_time' = Secs(image_file)
    /\ idx' = idx + 1
    /\ UNCHANGED <<pc, inputs, rest_vars, image_datetimes, gd_vars, duplicates, cull_vars>>

\* a group_imgs_by_datetime that forgets "groups.append(current_group)" after
\* the loop
GidReturnNoLastGroup ==
    /\ pc = "gid_loop"
    /\ idx > Len(image_datetimes)
    /\ groups' = groups
    /\ duplicates' = groups'
    /\ pc' = "score_images"
    /\ UNCHANGED <<inputs, rest_vars, image_datetimes, current_group, current_time, idx,
                   gd_vars, cull_vars>>

\* lines 209-212: close the last group and return; the caller passes the
\* result on as the `duplicates` of gen_culled_list_with_exif
GidReturn ==
    /\ pc = "gid_loop"
    /\ idx > Len(image_datetimes)
    /\ groups' = Append(groups, current_group)
    /\ duplicates' = groups'
    /\ pc' = "score_images"
    /\ UNCHANGED <<inputs, rest_vars, image_datetimes, current_group, current_time, idx,
                   gd_vars, cull_vars>>

(***************************************************************************)
(* duplicate_detector.py: find_duplicates, group_duplicates and their      *)
(* wrapper find_duplicate_images (imported by culler.py as find_dup_imgs). *)
(*                                                                         *)
(* The feature extraction and cosine_similarity are the Similarity         *)
(* provider: sim[<<i, j>>] is the similarity of images i < j.  Iterating a *)
(* Python set visits its members in an unspecified order, so every order   *)
(* is allowed wherever the code iterates one.                              *)
(***************************************************************************)
DUPLICATE_THRESHOLD == 93

DUP_THRESHOLD_FAST == 96

\* similarities at, between and above the two thresholds
SimValues == {93, 96, 97}

\* lines 57-61 with "<" for ">"
DupPairsBelow(n, thr) ==
    {<<p[2], p[1]>> : p \in {q \in Pairs(n) : sim[q] < thr}}

\* lines 57-61 with ">=" for ">"
DupPairsAtLeast(n, thr) ==
    {<<p[2], p[1]>> : p \in {q \in Pairs(n) : sim[q] >= thr}}

\* lines 57-61: the set of (file_list[j], file_list[i]), i < j, whose
\* similarity exceeds the threshold
DupPairs(n, thr) ==
    {<<p[2], p[1]>> : p \in {q \in Pairs(n) : sim[q] > thr}}

\* find_duplicates, then lines 77, 83, 84 of group_duplicates
FindDuplicates ==
    /\ pc = "find_duplicates"
    /\ gd' = [NoGd EXCEPT
                !.pairs = DupPairs(Len(image_files), threshold),
                !.adj = [k \in 1..Len(image_files) |-> {}]]
    /\ pc' = "gd_build"
    /\ UNCHANGED <<inputs, rest_vars, gid_vars, threshold, duplicates, cull_vars>>

\* lines 78-80: one iteration of "for a, b in duplicate_pairs"; a defaultdict
\* gets a key the first time it is indexed
GdAddPair ==
    /\ pc = "gd_build"
    /\ \E p \in gd.pairs :
          LET a == p[1]
              b == p[2]
              keys1 == IF a \in Range(gd.keys) THEN gd.keys
                       ELSE Append(gd.keys, a)
              keys2 == IF b \in Range(keys1) THEN keys1 ELSE Append(keys1, b)
          IN gd' = [gd EXCEPT
                      !.pairs = gd.pairs \ {p},
                      !.keys = keys2,
                      !.adj = [gd.adj EXCEPT ![a] = gd.adj[a] \cup {b},
                                             ![b] = gd.adj[b] \cup {a}]]
    /\ UNCHANGED <<pc, inputs, rest_vars, gid_vars, threshold, duplicates, cull_vars>>

\* the pair loop is over: start "for node in adj"
GdBuilt ==
    /\ pc = "gd_build"
    /\ gd.pairs = {}
    /\ gd' = [gd EXCEPT !.pos = 1]
    /\ pc' = "gd_scan"
    /\ UNCHANGED <<inputs, rest_vars, gid_vars, threshold, duplicates, cull_vars>>

\* a scan that starts a traversal at every key, visited or not
GdScanKeyAlways ==
    /\ pc = "gd_scan"
    /\ gd.pos <= Len(gd.keys)
    /\ gd' = [gd EXCEPT !.group = <<>>, !.queue = <<gd.keys[gd.pos]>>]
    /\ pc' = "gd_bfs"
    /\ UNCHANGED <<inputs, rest_vars, gid_vars, threshold, duplicates, cull_vars>>

\* lines 85-88: the next key of adj; an unvisited one starts a traversal
GdScanKey ==
    /\ pc = "gd_scan"
    /\ gd.pos <= Len(gd.keys)
    /\ LET node == gd.keys[gd.pos]
       IN IF node \notin gd.visited
          THEN /\ gd' = [gd EXCEPT !.group = <<>>, !.queue = <<node>>]
               /\ pc' = "gd_bfs"
          ELSE /\ gd' = [gd EXCEPT !.pos = gd.pos + 1]
               /\ pc' = pc
    /\ UNCHANGED <<inputs, rest_vars, gid_vars, threshold, duplicates, cull_vars>>

\* lines 89-96: one iteration of "while queue"
GdBfsPop ==
    /\ pc = "gd_bfs"
    /\ gd.queue # <<>>
    /\ LET curr == Head(gd.queue)
       IN IF curr \notin gd.visited
          THEN \E nbrs \in Orderings(gd.adj[curr] \ (gd.visited \cup {curr})) :
                  gd' = [gd EXCEPT
                           !.visited = gd.visited \cup {curr},
                           !.group = Append(gd.group, curr),
                           !.queue = Tail(gd.queue) \o nbrs]
          ELSE gd' = [gd EXCEPT !.queue = Tail(gd.queue)]
    /\ UNCHANGED <<pc, inputs, rest_vars, gid_vars, threshold, duplicates, cull_vars>>

\* line 97: the queue is empty, the group is complete
GdCloseGroup ==
    /\ pc = "gd_bfs"
    /\ gd.queue = <<>>
    /\ gd' = [gd EXCEPT !.groups = Append(gd.groups, gd.group),
                        !.pos = gd.pos + 1]
    /\ pc' = "gd_scan"
    /\ UNCHANGED <<inputs, rest_vars, gid_vars, threshold, duplicates, cull_vars>>

\* lines 98-101 and 117-120: return the groups to the caller, which is
\* gen_culled_list_fast (line 230) or gen_culled_list_slow (line 375); the
\* latter goes on to "for duplicate_set in duplicates"
GdReturn ==
    /\ pc = "gd_scan"
    /\ gd.pos > Len(gd.keys)
    /\ duplicates' = gd.groups
    /\ IF use_fast_culler
       THEN /\ pc' = "find_dups_to_remove"
            /\ UNCHANGED set_idx
       ELSE /\ pc' = "fpd_build"
            /\ set_idx' = 1
    /\ UNCHANGED <<inputs, gid_vars, gd_vars, cull_vars, adjacency,
                   people_duplicates, first_duplicates, out_vars>>

(***************************************************************************)
(* Score vectors (scorer.py, lines 60-69): seven categories, in hundredths.*)
(***************************************************************************)
Vec(o, q, c, l, col, d, ct) ==
    [Overall |-> o, Quality |-> q, Composition |-> c, Lighting |-> l,
     Color |-> col, DepthOfField |-> d, Content |-> ct]

Flat(x) == Vec(x, x, x, x, x, x, x)

\* the weighted sort key of culler.py (lines 641-647, 301-305), times 100
WeightedScore(v) ==
    v.Quality * 10 + v.Composition * 30 + v.DepthOfField * 20
        + v.Color * 15 + v.Lighting * 25

\* every score exactly at its gate threshold
AtThresholds == Vec(250, 250, 275, 250, 250, 250, 260)

\* fails the gate on Overall alone, with the highest WeightedScore of all
LowOverall == Vec(200, 500, 500, 500, 500, 500, 500)

(***************************************************************************)
(* culler.py, find_dups_to_remove.                                         *)
(***************************************************************************)
\* best_image = "" (line 638): no image
NoImage == 0

\* a scan whose running maximum also yields to an equal score (">=")
RECURSIVE ScanGroupLastWins(_, _, _, _)
ScanGroupLastWins(members, max_score, best_image, acc) ==
    IF members = <<>> THEN acc
    ELSE LET image == Head(members)
             avg_score == WeightedScore(score_of[image])
         IN IF avg_score >= max_score
            THEN ScanGroupLastWins(Tail(members), avg_score, image,
                                   IF best_image # NoImage
                                   THEN Append(acc, best_image) ELSE acc)
            ELSE ScanGroupLastWins(Tail(members), max_score, best_image,
                                   Append(acc, image))

\* a scan without the test best_image != "" of line 650
RECURSIVE ScanGroupNoEmptyTest(_, _, _, _)
ScanGroupNoEmptyTest(members, max_score, best_image, acc) ==
    IF members = <<>> THEN acc
    ELSE LET image == Head(members)
             avg_score == WeightedScore(score_of[image])
         IN IF avg_score > max_score
            THEN ScanGroupNoEmptyTest(Tail(members), avg_score, image,
                                      Append(acc, best_image))
            ELSE ScanGroupNoEmptyTest(Tail(members), max_score, best_image,
                                      Append(acc, image))

\* lines 639-654: the scan of one group; acc is dups_to_remove
RECURSIVE ScanGroup(_, _, _, _)
ScanGroup(members, max_score, best_image, acc) ==
    IF members = <<>> THEN acc
    ELSE LET image == Head(members)
             avg_score == WeightedScore(score_of[image])
         IN IF avg_score > max_score
            THEN ScanGroup(Tail(members), avg_score, image,
                           IF best_image # NoImage
                           THEN Append(acc, best_image) ELSE acc)
            ELSE ScanGroup(Tail(members), max_score, best_image,
                           Append(acc, image))

\* lines 635-656: every group is scanned from max_score = 0.0, best_image = ""
RECURSIVE ScanGroups(_, _)
ScanGroups(dups, acc) ==
    IF dups = <<>> THEN acc
    ELSE ScanGroups(Tail(dups), ScanGroup(Head(dups), 0, NoImage, acc))

find_dups_to_remove(dups) == ScanGroups(dups, <<>>)

\* find_dups_to_remove as called at lines 88 and 233; scored_images[image]
\* (line 640) raises KeyError for a group member that has no scores
FindDupsToRemove ==
    /\ pc = "find_dups_to_remove"
    /\ IF Range(Flatten(duplicates)) \subseteq Range(scored_images)
       THEN /\ duplicates_to_remove' = find_dups_to_remove(duplicates)
            /\ pc' = "remove_dups"
       ELSE /\ pc' = "error"
            /\ UNCHANGED duplicates_to_remove
    /\ UNCHANGED <<inputs, rest_vars, gid_vars, gd_vars, duplicates, scored_images,
                   num_images, culled, removal_log, sorted_images,
                   culled_img_list>>

\* a removal loop that appends to culled without "del scored_images[...]"
RECURSIVE RemoveLoopKeepKeys(_, _, _)
RemoveLoopKeepKeys(dtr, keys, cu) ==
    IF dtr = <<>> THEN [ok |-> TRUE, keys |-> keys, culled |-> cu]
    ELSE IF Head(dtr) \notin Range(keys)
         THEN [ok |-> FALSE, keys |-> keys, culled |-> cu]
         ELSE RemoveLoopKeepKeys(Tail(dtr), keys, Append(cu, Head(dtr)))

\* lines 257-264: "del scored_images[duplicate]; culled.append(duplicate)"
\* for each entry, up to the first one that is no key (KeyError)
RECURSIVE RemoveLoop(_, _, _)
RemoveLoop(dtr, keys, cu) ==
    IF dtr = <<>> THEN [ok |-> TRUE, keys |-> keys, culled |-> cu]
    ELSE IF Head(dtr) \notin Range(keys)
         THEN [ok |-> FALSE, keys |-> keys, culled |-> cu]
         ELSE RemoveLoop(Tail(dtr), Without(keys, {Head(dtr)}),
                         Append(cu, Head(dtr)))

RemoveDups ==
    /\ pc = "remove_dups"
    /\ LET r == RemoveLoop(duplicates_to_remove, scored_images, culled)
       IN /\ scored_images' = r.keys
          /\ culled' = r.culled
          /\ pc' = IF r.ok THEN "quality_gate" ELSE "error"
    /\ UNCHANGED <<inputs, rest_vars, gid_vars, gd_vars, duplicates, num_images,
                   duplicates_to_remove, removal_log, sorted_images,
                   culled_img_list>>

(***************************************************************************)
(* culler.py, the quality gate (lines 267-295, 106-134).                   *)
(***************************************************************************)
\* a gate whose last check reads "<=" for "<"
GateReasonContentInclusive(v) ==
    IF v.Overall < 250 THEN "Overall"
    ELSE IF v.Quality < 250 THEN "Quality"
    ELSE IF v.Composition < 275 THEN "Composition"
    ELSE IF v.Lighting < 250 THEN "Lighting"
    ELSE IF v.DepthOfField < 250 THEN "Depth of Field"
    ELSE IF v.Content <= 260 THEN "Content"
    ELSE "pass"

\* a gate that tests Quality before Overall
GateReasonQualityFirst(v) ==
    IF v.Quality < 250 THEN "Quality"
    ELSE IF v.Overall < 250 THEN "Overall"
    ELSE IF v.Composition < 275 THEN "Composition"
    ELSE IF v.Lighting < 250 THEN "Lighting"
    ELSE IF v.DepthOfField < 250 THEN "Depth of Field"
    ELSE IF v.Content < 260 THEN "Content"
    ELSE "pass"

\* the if/elif chain: the category named in the printed line, or "pass"
GateReason(v) ==
    IF v.Overall < 250 THEN "Overall"
    ELSE IF v.Quality < 250 THEN "Quality"
    ELSE IF v.Composition < 275 THEN "Composition"
    ELSE IF v.Lighting < 250 THEN "Lighting"
    ELSE IF v.DepthOfField < 250 THEN "Depth of Field"
    ELSE IF v.Content < 260 THEN "Content"
    ELSE "pass"

\* the loop over scored_images.items(): one <<key, category>> per removal
RECURSIVE GateScan(_)
GateScan(keys) ==
    IF keys = <<>> THEN <<>>
    ELSE LET reason == GateReason(score_of[Head(keys)])
         IN IF reason = "pass" THEN GateScan(Tail(keys))
            ELSE <<<<Head(keys), reason>>>> \o GateScan(Tail(keys))

\* a gate that reports and culls but forgets the "del scored_images[key]" of
\* lines 294-295
QualityGateNoDelete ==
    /\ pc = "quality_gate"
    /\ LET removed == GateScan(scored_images)
           keys_to_remove == [k \in 1..Len(removed) |-> removed[k][1]]
       IN /\ removal_log' = removal_log \o removed
          /\ culled' = culled \o keys_to_remove
          /\ scored_images' = scored_images
    /\ pc' = "sort_trim"
    /\ UNCHANGED <<inputs, rest_vars, gid_vars, gd_vars, duplicates, num_images,
                   duplicates_to_remove, sorted_images, culled_img_list>>

\* lines 267-295: the gate loop, then the deletion of the removed keys
QualityGate ==
    /\ pc = "quality_gate"
    /\ LET removed == GateScan(scored_images)
           keys_to_remove == [k \in 1..Len(removed) |-> removed[k][1]]
       IN /\ removal_log' = removal_log \o removed
          /\ culled' = culled \o keys_to_remove
          /\ scored_images' = Without(scored_images, Range(keys_to_remove))
    /\ pc' = "sort_trim"
    /\ UNCHANGED <<inputs, rest_vars, gid_vars, gd_vars, duplicates, num_images,
                   duplicates_to_remove, sorted_images, culled_img_list>>

(***************************************************************************)
(* culler.py, sort and trim (lines 297-322, 136-161).                      *)
(***************************************************************************)
\* sorted() is stable: x goes after every key whose score is not higher
RECURSIVE InsertByScore(_, _)
InsertByScore(x, s) ==
    IF s = <<>> THEN <<x>>
    ELSE IF WeightedScore(score_of[Head(s)]) <= WeightedScore(score_of[x])
         THEN <<Head(s)>> \o InsertByScore(x, Tail(s))
         ELSE <<x>> \o s

RECURSIVE SortByScore(_)
SortByScore(s) ==
    IF s = <<>> THEN <<>>
    ELSE InsertByScore(s[Len(s)], SortByScore(SubSeq(s, 1, Len(s) - 1)))

Max(a, b) == IF a >= b THEN a ELSE b

\* a trim loop that keeps the first images and skips the last
\* num_images_to_cull ones
RECURSIVE TrimLoopKeepFirst(_, _)
TrimLoopKeepFirst(sorted, num_images_to_cull) ==
    IF sorted = <<>> THEN <<>>
    ELSE IF Len(sorted) > num_images_to_cull
         THEN <<Head(sorted)>> \o TrimLoopKeepFirst(Tail(sorted), num_images_to_cull)
         ELSE <<>>

\* lines 317-322: "for image in sorted_images": a key is kept once the
\* countdown has reached 0, and skipped (counting down) before that
RECURSIVE TrimLoop(_, _)
TrimLoop(sorted, num_images_to_cull) ==
    IF sorted = <<>> THEN <<>>
    ELSE IF num_images_to_cull = 0
         THEN <<Head(sorted)>> \o TrimLoop(Tail(sorted), 0)
         ELSE TrimLoop(Tail(sorted), num_images_to_cull - 1)

\* a trim without the max(0, ...) of line 311 and the reset of line 313,
\* counting down from len - cull_to whatever its sign
NumToCullUnclamped(count, target) == count - target

\* lines 311-314
NumToCull(count, target) == Max(0, count - target)

\* lines 297-322: sort ascending by the weighted score, then trim
SortAndTrim ==
    /\ pc = "sort_trim"
    /\ sorted_images' = SortByScore(scored_images)
    /\ culled_img_list' =
          TrimLoop(sorted_images', NumToCull(Len(scored_images), cull_to))
    /\ pc' = "export"
    /\ UNCHANGED <<inputs, rest_vars, gid_vars, gd_vars, duplicates, scored_images,
                   num_images, duplicates_to_remove, culled, removal_log>>

\* lines 324-350: copy the culled images to ./CULLED, print the statistics
\* (len(culled) / num_images raises ZeroDivisionError when nothing was
\* scored) and return culled_img_list
ExportAndReturn ==
    /\ pc = "export"
    /\ pc' = IF num_images = 0 THEN "error" ELSE "done"
    /\ UNCHANGED <<inputs, rest_vars, gid_vars, gd_vars, duplicates, cull_vars>>

(***************************************************************************)
(* culler.py, generate_culled_img_list and the head of the pipelines.      *)
(***************************************************************************)
\* utils.py, all_images_have_datetime_original: every image has the tag,
\* parseable or not; True when there is no image
all_images_have_datetime_original ==
    \A f \in Range(image_files) : exif_of[f].kind # "none"

\* line 40: the run takes the burst pipeline
ExifPath == use_exif /\ all_images_have_datetime_original

\* a dispatch that enters the chosen pipeline, scoring first, without
\* evaluating group_imgs_by_datetime beforehand
DispatchScoreFirst ==
    /\ pc = "dispatch"
    /\ pc' = "score_images"
    /\ UNCHANGED <<inputs, rest_vars, gid_vars, gd_vars, duplicates, cull_vars>>

\* lines 40-61.  The argument group_imgs_by_datetime(local_dir_path) of line
\* 60 is evaluated before gen_culled_list_with_exif is entered.
Dispatch ==
    /\ pc = "dispatch"
    /\ pc' = IF ExifPath THEN "gid_read" ELSE "score_images"
    /\ UNCHANGED <<inputs, rest_vars, gid_vars, gd_vars, duplicates, cull_vars>>

\* score_images as called at lines 84, 210 and 372: the scores of the
\* images it finds, in listing order.  The fast pipeline goes on to
\* find_dup_imgs(local_dir_path, DUP_THRESHOLD_FAST), the slow one to
\* find_dup_imgs(local_dir_path, DUPLICATE_THRESHOLD).
ScoreImages ==
    /\ pc = "score_images"
    /\ scored_images' = SelectSeq(image_files, LAMBDA f : f \in scorable)
    /\ num_images' = Len(scored_images')
    /\ IF ExifPath
       THEN /\ pc' = "find_dups_to_remove"
            /\ UNCHANGED threshold
       ELSE /\ pc' = "find_duplicates"
            /\ threshold' = IF use_fast_culler THEN DUP_THRESHOLD_FAST
                            ELSE DUPLICATE_THRESHOLD
    /\ UNCHANGED <<inputs, rest_vars, gid_vars, gd, duplicates, duplicates_to_remove,
                   culled, removal_log, sorted_images, culled_img_list>>

(***************************************************************************)
(* culler.py, gen_culled_list_slow: the face refinement of the embedding   *)
(* groups (lines 379-399), image_faces_match and find_people_duplicates.   *)
(*                                                                         *)
(* face_recognition is the Face provider: faces[f] is the list of face     *)
(* encodings found in image f.  An encoding is a point, here on a line in  *)
(* tenths, and compare_faces says whether two points are no further apart  *)
(* than the tolerance, so a match is symmetric but not transitive.         *)
(***************************************************************************)
\* tolerance=0.5 (line 539), in tenths
FaceTolerance == 5

\* the 2 of "abs(len(encs1) - len(encs2)) > 2" (line 587)
FaceCountSlack == 2

\* face_recognition.compare_faces([enc1], enc2, tolerance=0.5)[0]
compare_faces(enc1, enc2) == Abs(enc1 - enc2) <= FaceTolerance

\* an image_faces_match that is satisfied by one matched face
RECURSIVE image_faces_match_any(_, _)
image_faces_match_any(img1_encodings, img2_encodings) ==
    IF img1_encodings = <<>> THEN TRUE
    ELSE IF \E k \in 1..Len(img2_encodings) :
               compare_faces(Head(img1_encodings), img2_encodings[k])
         THEN TRUE
         ELSE image_faces_match_any(Tail(img1_encodings), img2_encodings)

\* lines 535-546: every encoding of the first image has a match in the second
RECURSIVE image_faces_match(_, _)
image_faces_match(img1_encodings, img2_encodings) ==
    IF img1_encodings = <<>> THEN TRUE
    ELSE IF \E k \in 1..Len(img2_encodings) :
               compare_faces(Head(img1_encodings), img2_encodings[k])
         THEN image_faces_match(Tail(img1_encodings), img2_encodings)
         ELSE FALSE

\* lines 581-591: adjacency[image_names[i]], in the order of image_names
RECURSIVE Neighbors(_, _, _)
Neighbors(image_names, i, j) ==
    IF j > Len(image_names) THEN <<>>
    ELSE LET encs1 == faces[image_names[i]]
             encs2 == faces[image_names[j]]
             rest == Neighbors(image_names, i, j + 1)
         IN IF i = j THEN rest
            ELSE IF Abs(Len(encs1) - Len(encs2)) > FaceCountSlack THEN rest
            ELSE IF image_faces_match(encs1, encs2)
                 THEN <<image_names[j]>> \o rest
                 ELSE rest

\* lines 597-602: dfs(node, group); st is <<visited, group>> as a record
RECURSIVE dfs(_, _, _)
RECURSIVE VisitNeighbors(_, _, _)
dfs(adj, node, st) ==
    VisitNeighbors(adj, adj[node],
                   [visited |-> st.visited \cup {node},
                    group |-> Append(st.group, node)])

VisitNeighbors(adj, nbrs, st) ==
    IF nbrs = <<>> THEN st
    ELSE VisitNeighbors(adj, Tail(nbrs),
                        IF Head(nbrs) \notin st.visited
                        THEN dfs(adj, Head(nbrs), st) ELSE st)

\* a component loop without the "len(group) > 1" test of line 609
RECURSIVE ComponentLoopKeepSingles(_, _, _, _)
ComponentLoopKeepSingles(adj, names, visited, duplicate_groups) ==
    IF names = <<>> THEN duplicate_groups
    ELSE LET image == Head(names)
         IN IF image \notin visited /\ Len(adj[image]) > 0
            THEN LET st == dfs(adj, image, [visited |-> visited, group |-> <<>>])
                 IN ComponentLoopKeepSingles(adj, Tail(names), st.visited,
                                             Append(duplicate_groups, st.group))
            ELSE ComponentLoopKeepSingles(adj, Tail(names), visited,
                                          duplicate_groups)

\* lines 605-612: "for image in image_names"
RECURSIVE ComponentLoop(_, _, _, _)
ComponentLoop(adj, names, visited, duplicate_groups) ==
    IF names = <<>> THEN duplicate_groups
    ELSE LET image == Head(names)
         IN IF image \notin visited /\ Len(adj[image]) > 0
            THEN LET st == dfs(adj, image, [visited |-> visited, group |-> <<>>])
                 IN ComponentLoop(adj, Tail(names), st.visited,
                                  IF Len(st.group) > 1
                                  THEN Append(duplicate_groups, st.group)
                                  ELSE duplicate_groups)
            ELSE ComponentLoop(adj, Tail(names), visited, duplicate_groups)

\* lines 594 and 605-608: `visited` when the loop has gone through names
RECURSIVE VisitedAfter(_, _, _)
VisitedAfter(adj, names, visited) ==
    IF names = <<>> THEN visited
    ELSE LET image == Head(names)
         IN IF image \notin visited /\ Len(adj[image]) > 0
            THEN VisitedAfter(adj, Tail(names),
                     dfs(adj, image, [visited |-> visited, group |-> <<>>]).visited)
            ELSE VisitedAfter(adj, Tail(names), visited)

\* lines 383-384 and 566-591: the next duplicate_set, its encodings and its
\* adjacency
FpdBuild ==
    /\ pc = "fpd_build"
    /\ set_idx <= Len(duplicates)
    /\ LET image_names == duplicates[set_idx]
           IndexOf(f) == CHOOSE k \in 1..Len(image_names) : image_names[k] = f
       IN adjacency' = [f \in Range(image_names) |->
                          Neighbors(image_names, IndexOf(f), 1)]
    /\ pc' = "fpd_group"
    /\ UNCHANGED <<inputs, gid_vars, gd_vars, duplicates, cull_vars, set_idx,
                   people_duplicates, first_duplicates, out_vars>>

\* lines 593-612 and 385-398: the components of the set, each appended to
\* people_duplicates
FpdGroup ==
    /\ pc = "fpd_group"
    /\ LET image_names == duplicates[set_idx]
           people_groups == ComponentLoop(adjacency, image_names, {}, <<>>)
       IN people_duplicates' = people_duplicates \o people_groups
    /\ set_idx' = set_idx + 1
    /\ pc' = "fpd_build"
    /\ UNCHANGED <<inputs, gid_vars, gd_vars, duplicates, cull_vars, adjacency,
                   first_duplicates, out_vars>>

\* lines 399-405: the loop is over; people_duplicates is what
\* find_dups_to_remove gets as its `duplicates`
PeopleDone ==
    /\ pc = "fpd_build"
    /\ set_idx > Len(duplicates)
    /\ duplicates' = people_duplicates
    /\ pc' = "find_dups_to_remove"
    /\ UNCHANGED <<inputs, gid_vars, gd_vars, cull_vars, fpd_vars,
                   first_duplicates, out_vars>>

(***************************************************************************)
(* s3_bucket_utils.py, output_files and upload_files_ordered.              *)
(*                                                                         *)
(* file_state[k] is what the transfer of the k-th entry meets: "missing"   *)
(* when os.path.isfile is false, "fails" when the copy or the upload       *)
(* raises (an OSError from shutil.copy, a BotoCoreError or ClientError     *)
(* from upload_file), "ok" otherwise.                                      *)
(***************************************************************************)
FileStates == {"ok", "missing", "fails"}

\* lines 115-122: one iteration of "for filename in files_to_output";
\* shutil.copy is not inside a try, so what it raises leaves the function
OutputStep ==
    /\ pc = "output_loop"
    /\ fidx <= Len(files_to_output)
    /\ CASE file_state[fidx] = "missing" ->
              /\ all_success' = FALSE
              /\ fidx' = fidx + 1
              /\ UNCHANGED <<pc, transferred>>
         [] file_state[fidx] = "ok" ->
              /\ transferred' = Append(transferred, files_to_output[fidx])
              /\ fidx' = fidx + 1
              /\ UNCHANGED <<pc, all_success>>
         [] file_state[fidx] = "fails" ->
              /\ pc' = "error"
              /\ UNCHANGED <<fidx, all_success, transferred>>
    /\ UNCHANGED <<inputs, gid_vars, gd_vars, duplicates, cull_vars, fpd_vars,
                   first_duplicates>>

\* line 124: return all_success
OutputReturn ==
    /\ pc = "output_loop"
    /\ fidx > Len(files_to_output)
    /\ pc' = "returned"
    /\ UNCHANGED <<inputs, gid_vars, gd_vars, duplicates, cull_vars, rest_vars>>

\* lines 38-52: one iteration of "for idx, filename in enumerate(...)"; the
\* upload is inside a try that catches BotoCoreError and ClientError
UploadStep ==
    /\ pc = "upload_loop"
    /\ fidx <= Len(files_to_output)
    /\ CASE file_state[fidx] = "missing" ->
              /\ all_success' = FALSE
              /\ UNCHANGED transferred
         [] file_state[fidx] = "ok" ->
              /\ transferred' = Append(transferred, files_to_output[fidx])
              /\ UNCHANGED all_success
         [] file_state[fidx] = "fails" ->
              /\ all_success' = FALSE
              /\ UNCHANGED transferred
    /\ fidx' = fidx + 1
    /\ UNCHANGED <<pc, inputs, gid_vars, gd_vars, duplicates, cull_vars,
                   fpd_vars, first_duplicates>>

\* line 54: return all_success
UploadReturn ==
    /\ pc = "upload_loop"
    /\ fidx > Len(files_to_output)
    /\ pc' = "returned"
    /\ UNCHANGED <<inputs, gid_vars, gd_vars, duplicates, cull_vars, rest_vars>>

(***************************************************************************)
(* Spec: a whole run of generate_culled_img_list on up to MaxImages images.*)
(*                                                                         *)
(* An input the run never reads is left empty: the similarities when the   *)
(* burst pipeline is taken, the timestamps when use_exif is False.  When   *)
(* use_exif is True and some image lacks the tag, only the presence of the *)
(* tag is read; the faces are read by the slow pipeline only.  In a burst   *)
(* run any image may have an extension that group_imgs_by_datetime lists   *)
(* and score_images does not look for; in the other runs every image is    *)
(* scorable.                                                               *)
(***************************************************************************)
PipeVectors == {LowOverall, Flat(300), Flat(400)}

\* a similarity exactly at the threshold of the run, and one above it
SimAround(thr) == {thr, thr + 1}

\* no face, one face, a face of somebody else
PipeFaces == {<<>>, <<0>>, <<10>>}

Init ==
    /\ pc = "dispatch"
    /\ \E n \in 0..MaxImages :
          /\ image_files = Iota(n)
          /\ score_of \in [1..n -> PipeVectors]
          /\ cull_to \in 0..(MaxImages + 1)
          /\ \/ /\ use_exif = TRUE
                /\ use_fast_culler = TRUE
                /\ exif_of \in [1..n -> OkStamps(MaxPipeTime) \cup {BadStamp}]
                /\ sim = <<>>
                /\ scorable \in SUBSET (1..n)
                /\ faces = <<>>
             \/ /\ use_exif = TRUE
                /\ use_fast_culler = TRUE
                /\ exif_of \in [1..n -> {NoStamp, [kind |-> "ok", secs |-> 0]}]
                /\ \E f \in 1..n : exif_of[f] = NoStamp
                /\ sim \in [Pairs(n) -> SimAround(DUP_THRESHOLD_FAST)]
                /\ scorable = 1..n
                /\ faces = <<>>
             \/ /\ use_exif = FALSE
                /\ use_fast_culler = TRUE
                /\ exif_of = <<>>
                /\ sim \in [Pairs(n) -> SimAround(DUP_THRESHOLD_FAST)]
                /\ scorable = 1..n
                /\ faces = <<>>
             \/ /\ use_exif = FALSE
                /\ use_fast_culler = FALSE
                /\ exif_of = <<>>
                /\ sim \in [Pairs(n) -> SimAround(DUPLICATE_THRESHOLD)]
                /\ scorable = 1..n
                /\ faces \in [1..n -> PipeFaces]
    /\ GidIdle
    /\ RestIdle
    /\ GdIdle
    /\ duplicates = <<>>
    /\ CullIdle

Next ==
    \/ Dispatch
    \/ GidRead
    \/ GidStep
    \/ GidReturn
    \/ ScoreImages
    \/ FindDuplicates
    \/ GdAddPair
    \/ GdBuilt
    \/ GdScanKey
    \/ GdBfsPop
    \/ GdCloseGroup
    \/ GdReturn
    \/ FpdBuild
    \/ FpdGroup
    \/ PeopleDone
    \/ FindDupsToRemove
    \/ RemoveDups
    \/ QualityGate
    \/ SortAndTrim
    \/ ExportAndReturn

Spec == Init /\ [][Next]_vars

(***************************************************************************)
(* SpecBurst: group_imgs_by_datetime on its own, on any listing of up to   *)
(* MaxBurst images with any timestamp data.                                *)
(***************************************************************************)
InitBurst ==
    /\ pc = "gid_read"
    /\ use_fast_culler = TRUE
    /\ use_exif = TRUE
    /\ cull_to = 0
    /\ score_of = <<>>
    /\ sim = <<>>
    /\ \E n \in 0..MaxBurst :
          /\ image_files = Iota(n)
          /\ scorable = 1..n
          /\ faces = <<>>
          /\ exif_of \in [1..n -> OkStamps(MaxTime) \cup {NoStamp, BadStamp}]
    /\ GidIdle
    /\ RestIdle
    /\ GdIdle
    /\ duplicates = <<>>
    /\ CullIdle

NextBurst == GidRead \/ GidStep \/ GidReturn

SpecBurst == InitBurst /\ [][NextBurst]_vars

(***************************************************************************)
(* SpecEmbed: find_duplicate_images on its own, on up to MaxEmbed images   *)
(* with any similarities, at either of the two thresholds of culler.py.    *)
(***************************************************************************)
InitEmbed ==
    /\ pc = "find_duplicates"
    /\ use_fast_culler = TRUE
    /\ use_exif = FALSE
    /\ cull_to = 0
    /\ score_of = <<>>
    /\ exif_of = <<>>
    /\ \E n \in 0..MaxEmbed :
          /\ image_files = Iota(n)
          /\ scorable = 1..n
          /\ faces = <<>>
          /\ sim \in [Pairs(n) -> SimValues]
    /\ GidIdle
    /\ RestIdle
    /\ threshold \in {DUPLICATE_THRESHOLD, DUP_THRESHOLD_FAST}
    /\ gd = NoGd
    /\ duplicates = <<>>
    /\ CullIdle

NextEmbed ==
    \/ FindDuplicates
    \/ GdAddPair
    \/ GdBuilt
    \/ GdScanKey
    \/ GdBfsPop
    \/ GdCloseGroup
    \/ GdReturn

SpecEmbed == InitEmbed /\ [][NextEmbed]_vars

(***************************************************************************)
(* SpecSelect: find_dups_to_remove and the removal loop on their own, on   *)
(* up to MaxSelect scored images and any list of pairwise disjoint groups  *)
(* of them (singletons and ungrouped images included), with scores that    *)
(* include 0.0 throughout and -1.0 throughout.                             *)
(***************************************************************************)
SelectVectors == {Flat(-100), Flat(0), Flat(300), Flat(400)}

\* p cut into consecutive groups, a group ending at each position of `ends`
Chunks(p, ends) ==
    LET EndOf(g) == CHOOSE e \in ends : Cardinality({c \in ends : c <= e}) = g
        StartOf(g) == IF g = 1 THEN 1 ELSE EndOf(g - 1) + 1
    IN [g \in 1..Cardinality(ends) |-> SubSeq(p, StartOf(g), EndOf(g))]

\* the lists of pairwise disjoint, non-empty, repetition-free groups over 1..n
GroupLists(n) ==
    UNION {UNION {{Chunks(p, cuts \cup ({Len(p)} \ {0})) :
                     cuts \in SUBSET (1..(Len(p) - 1))} :
                  p \in Orderings(S)} :
           S \in SUBSET (1..n)}

InitSelect ==
    /\ pc = "find_dups_to_remove"
    /\ use_fast_culler = TRUE
    /\ use_exif = FALSE
    /\ cull_to = 0
    /\ exif_of = <<>>
    /\ sim = <<>>
    /\ GidIdle
    /\ RestIdle
    /\ GdIdle
    /\ \E n \in 0..MaxSelect :
          /\ image_files = Iota(n)
          /\ scorable = 1..n
          /\ faces = <<>>
          /\ score_of \in [1..n -> SelectVectors]
          /\ scored_images = Iota(n)
          /\ num_images = n
          /\ duplicates \in GroupLists(n)
    /\ duplicates_to_remove = <<>>
    /\ culled = <<>>
    /\ removal_log = <<>>
    /\ sorted_images = <<>>
    /\ culled_img_list = <<>>

NextSelect == FindDupsToRemove \/ RemoveDups

SpecSelect == InitSelect /\ [][NextSelect]_vars

(***************************************************************************)
(* SpecGate: the quality gate on its own, on up to MaxGate images whose    *)
(* every gated score is at its threshold or 0.01 below it.                 *)
(***************************************************************************)
GateVectors ==
    {Vec(o, q, c, l, col, d, ct) :
        o \in {249, 250}, q \in {249, 250}, c \in {274, 275},
        l \in {249, 250}, col \in {0, 1000}, d \in {249, 250},
        ct \in {259, 260}}

InitGate ==
    /\ pc = "quality_gate"
    /\ use_fast_culler = TRUE
    /\ use_exif = FALSE
    /\ cull_to = 0
    /\ exif_of = <<>>
    /\ sim = <<>>
    /\ GidIdle
    /\ RestIdle
    /\ GdIdle
    /\ duplicates = <<>>
    /\ \E n \in 0..MaxGate :
          /\ image_files = Iota(n)
          /\ scorable = 1..n
          /\ faces = <<>>
          /\ score_of \in [1..n -> GateVectors]
          /\ scored_images = Iota(n)
          /\ num_images = n
    /\ duplicates_to_remove = <<>>
    /\ culled = <<>>
    /\ removal_log = <<>>
    /\ sorted_images = <<>>
    /\ culled_img_list = <<>>

NextGate == QualityGate

SpecGate == InitGate /\ [][NextGate]_vars

(***************************************************************************)
(* SpecTrim: the sort and trim on their own, on up to MaxTrim images that  *)
(* passed the gate, with any cull_to up to one more than that.             *)
(***************************************************************************)
TrimVectors == {AtThresholds, Flat(300), Flat(400), Flat(500)}

InitTrim ==
    /\ pc = "sort_trim"
    /\ use_fast_culler = TRUE
    /\ use_exif = FALSE
    /\ exif_of = <<>>
    /\ sim = <<>>
    /\ GidIdle
    /\ RestIdle
    /\ GdIdle
    /\ duplicates = <<>>
    /\ cull_to \in 0..(MaxTrim + 1)
    /\ \E n \in 0..MaxTrim :
          /\ image_files = Iota(n)
          /\ scorable = 1..n
          /\ faces = <<>>
          /\ score_of \in [1..n -> TrimVectors]
          /\ scored_images = Iota(n)
          /\ num_images = n
    /\ duplicates_to_remove = <<>>
    /\ culled = <<>>
    /\ removal_log = <<>>
    /\ sorted_images = <<>>
    /\ culled_img_list = <<>>

NextTrim == SortAndTrim

SpecTrim == InitTrim /\ [][NextTrim]_vars

(***************************************************************************)
(* SpecMono: find_dup_imgs called on one directory of up to MaxMono images *)
(* at DUPLICATE_THRESHOLD, as gen_culled_list_slow calls it, and then at   *)
(* DUP_THRESHOLD_FAST, as gen_culled_list_fast calls it.  At most          *)
(* MaxMonoPairs pairs of images are more similar than the lower threshold. *)
(***************************************************************************)
\* culler.py line 375, then line 230: the groups found at the lower
\* threshold are set aside and the call is repeated at the higher one
FindDupImgsAgain ==
    /\ pc = "find_dups_to_remove"
    /\ threshold = DUPLICATE_THRESHOLD
    /\ first_duplicates' = duplicates
    /\ duplicates' = <<>>
    /\ threshold' = DUP_THRESHOLD_FAST
    /\ gd' = NoGd
    /\ pc' = "find_duplicates"
    /\ UNCHANGED <<inputs, gid_vars, cull_vars, fpd_vars, out_vars>>

InitMono ==
    /\ pc = "find_duplicates"
    /\ use_fast_culler = TRUE
    /\ use_exif = FALSE
    /\ cull_to = 0
    /\ score_of = <<>>
    /\ exif_of = <<>>
    /\ \E n \in 0..MaxMono :
          /\ image_files = Iota(n)
          /\ scorable = 1..n
          /\ faces = <<>>
          /\ sim \in [Pairs(n) -> SimValues]
          /\ Cardinality({q \in Pairs(n) : sim[q] > DUPLICATE_THRESHOLD})
                <= MaxMonoPairs
    /\ GidIdle
    /\ RestIdle
    /\ threshold = DUPLICATE_THRESHOLD
    /\ gd = NoGd
    /\ duplicates = <<>>
    /\ CullIdle

NextMono == NextEmbed \/ FindDupImgsAgain

SpecMono == InitMono /\ [][NextMono]_vars

(***************************************************************************)
(* SpecExport: output_files or upload_files_ordered on its own, on a list  *)
(* of up to MaxFiles entries, each of which may be there and transfer, be  *)
(* missing, or fail to transfer.                                           *)
(***************************************************************************)
InitExport ==
    /\ pc \in {"output_loop", "upload_loop"}
    /\ image_files = <<>>
    /\ exif_of = <<>>
    /\ score_of = <<>>
    /\ sim = <<>>
    /\ cull_to = 0
    /\ use_exif = FALSE
    /\ use_fast_culler = FALSE
    /\ scorable = {}
    /\ faces = <<>>
    /\ GidIdle
    /\ GdIdle
    /\ duplicates = <<>>
    /\ CullIdle
    /\ FpdIdle
    /\ first_duplicates = <<>>
    /\ \E n \in 0..MaxFiles :
          /\ files_to_output = Iota(n)
          /\ file_state \in [1..n -> FileStates]
    /\ fidx = 1
    /\ all_success = TRUE
    /\ transferred = <<>>

NextExport == OutputStep \/ OutputReturn \/ UploadStep \/ UploadReturn

SpecExport == InitExport /\ [][NextExport]_vars

(***************************************************************************)
(* SpecPeople: find_people_duplicates on its own, as gen_culled_list_slow  *)
(* calls it, on one duplicate set of up to MaxPeople images with up to     *)
(* MaxFaces face encodings each.  The faces of one image are of different  *)
(* people, listed in ascending order.                                      *)
(***************************************************************************)
\* MaxFaces people in a row, each within the tolerance of the next only
FaceValues == {FaceTolerance * k : k \in 0..(MaxFaces - 1)}

FaceLists ==
    UNION {{e \in [1..k -> FaceValues] :
               \A a \in 1..(k - 1) : e[a] < e[a + 1]} : k \in 0..MaxFaces}

InitPeople ==
    /\ pc = "fpd_build"
    /\ use_fast_culler = FALSE
    /\ use_exif = FALSE
    /\ cull_to = 0
    /\ score_of = <<>>
    /\ exif_of = <<>>
    /\ sim = <<>>
    /\ \E n \in 0..MaxPeople :
          /\ image_files = Iota(n)
          /\ scorable = 1..n
          /\ faces \in [1..n -> FaceLists]
          /\ duplicates = <<Iota(n)>>
    /\ GidIdle
    /\ GdIdle
    /\ CullIdle
    /\ set_idx = 1
    /\ adjacency = <<>>
    /\ people_duplicates = <<>>
    /\ first_duplicates = <<>>
    /\ OutIdle

NextPeople == FpdBuild \/ FpdGroup \/ PeopleDone

SpecPeople == InitPeople /\ [][NextPeople]_vars

(***************************************************************************)
(* Properties of group_imgs_by_datetime (SpecBurst).                       *)
(***************************************************************************)
BurstReturned == pc = "score_images"

AllParseable == \A f \in Range(image_files) : Parseable(f)

\* the position in `duplicates` of the group holding image f
GroupIndex(f) == CHOOSE g \in 1..Len(duplicates) : f \in Range(duplicates[g])

\* C3: when every image carries a parseable timestamp, the groups returned by
\* group_imgs_by_datetime hold every image exactly once, no group is empty,
\* and the groups laid end to end are the images in ascending timestamp
\* order (so each group is a contiguous run of that order).
C3_BurstPartitionSorted ==
    (BurstReturned /\ AllParseable) =>
        LET flat == Flatten(duplicates)
        IN /\ Len(flat) = Len(image_files)
           /\ Range(flat) = Range(image_files)
           /\ \A g \in 1..Len(duplicates) : duplicates[g] # <<>>
           /\ \A k \in 1..(Len(flat) - 1) : Secs(flat[k]) <= Secs(flat[k + 1])

\* a listing that is not in time order, split into a burst and a singleton
C3_Witness ==
    /\ BurstReturned
    /\ AllParseable
    /\ Len(image_files) >= 3
    /\ Secs(image_files[1]) > Secs(image_files[2])
    /\ \E g, h \in 1..Len(duplicates) :
          Len(duplicates[g]) = 1 /\ Len(duplicates[h]) >= 2

\* C7: chained-gap semantics: two images that are neighbours in timestamp
\* order and at most 1.0 s apart are always placed in the same group.
C7_ChainedGap ==
    BurstReturned =>
        \A k \in 1..(Len(image_datetimes) - 1) :
            Secs(image_datetimes[k + 1]) - Secs(image_datetimes[k]) <= BurstWindow
                => GroupIndex(image_datetimes[k]) = GroupIndex(image_datetimes[k + 1])

\* C8: the walk compares with the anchor.  During and after the walk the
\* anchor is the timestamp of the first image of the current group, every
\* member of a group is within 1.0 s of that group's first member, and every
\* group but the first begins more than 1.0 s after the first member of the
\* group before it.
AnchoredGroups(gs) ==
    /\ \A g \in 1..Len(gs) :
          /\ gs[g] # <<>>
          /\ \A m \in Range(gs[g]) :
                Abs(Secs(m) - Secs(gs[g][1])) <= 1
    /\ \A g \in 2..Len(gs) :
          Abs(Secs(gs[g][1]) - Secs(gs[g - 1][1])) > 1

Selected == pc = "remove_dups"

\* the position of image m in the group g
PositionIn(m, g) == CHOOSE k \in 1..Len(g) : g[k] = m

\* C1: for every duplicate group of two or more images, exactly one member
\* is absent from the discard list, no member outscores it, and it is the
\* earliest of the members that share the highest WeightedScore.
C1_OneBestSurvivor ==
    Selected =>
        \A g \in 1..Len(duplicates) :
            Len(duplicates[g]) >= 2 =>
                LET members == Range(duplicates[g])
                    kept == members \ Range(duplicates_to_remove)
                IN /\ Cardinality(kept) = 1
                   /\ \A s \in kept : \A m \in members :
                         /\ WeightedScore(score_of[s]) >= WeightedScore(score_of[m])
                         /\ WeightedScore(score_of[s]) = WeightedScore(score_of[m])
                               => PositionIn(s, duplicates[g]) <= PositionIn(m, duplicates[g])

(***************************************************************************)
(* Properties of find_duplicates and group_duplicates (SpecEmbed).         *)
(***************************************************************************)
EmbedReturned == pc = "find_dups_to_remove"

\* image f has a similarity above the threshold with some other image
HasDuplicate(f) ==
    \E q \in Pairs(Len(image_files)) :
        (q[1] = f \/ q[2] = f) /\ sim[q] > threshold

\* C2 as claimed: every image is in exactly one emitted group, an image
\* without an above-threshold pair as a singleton.
C2_EmbedPartition ==
    EmbedReturned =>
        /\ \A f \in Range(image_files) :
              Occurrences(f, Flatten(duplicates)) = 1
        /\ \A f \in Range(image_files) :
              ~HasDuplicate(f) => \E g \in 1..Len(duplicates) : duplicates[g] = <<f>>

\* C2 as amended: every image is in at most one emitted group; an image is in
\* a group exactly when it has an above-threshold pair, so an image without
\* one is emitted in no group; every emitted group has two or more members.
C2_EmbedGroupsOnlyDuplicates ==
    EmbedReturned =>
        /\ \A f \in Range(image_files) :
              Occurrences(f, Flatten(duplicates)) = (IF HasDuplicate(f) THEN 1 ELSE 0)
        /\ Range(Flatten(duplicates)) \subseteq Range(image_files)
        /\ \A g \in 1..Len(duplicates) : Len(duplicates[g]) >= 2

\* two images above the threshold and a third that matches neither
C2_Witness ==
    /\ EmbedReturned
    /\ Len(image_files) = 3
    /\ Len(duplicates) = 1
    /\ Len(duplicates[1]) = 2
    /\ \E f \in Range(image_files) :
          ~HasDuplicate(f) /\ f \notin Range(Flatten(duplicates))

(***************************************************************************)
(* Properties of the sort and trim (SpecTrim).                             *)
(***************************************************************************)
Trimmed == pc = "export"

Min(a, b) == IF a <= b THEN a ELSE b

\* C4: the kept list has exactly min(cull_to, n) entries, all of them
\* distinct images of the n that survived, in ascending WeightedScore order;
\* cull_to >= n keeps all n and cull_to = 0 keeps none.
C4_TrimExact ==
    Trimmed =>
        /\ Len(culled_img_list) = Min(cull_to, Len(scored_images))
        /\ NoRepeat(culled_img_list)
        /\ Range(culled_img_list) \subseteq Range(scored_images)
        /\ \A k \in 1..(Len(culled_img_list) - 1) :
              WeightedScore(score_of[culled_img_list[k]])
                  <= WeightedScore(score_of[culled_img_list[k + 1]])
        /\ cull_to >= Len(scored_images)
              => Range(culled_img_list) = Range(scored_images)
        /\ cull_to = 0 => culled_img_list = <<>>

\* cull_to above the number of survivors, which arrive in descending order
C4_Witness ==
    /\ Trimmed
    /\ Len(scored_images) = 3
    /\ cull_to = 4
    /\ WeightedScore(score_of[1]) > WeightedScore(score_of[2])
    /\ WeightedScore(score_of[2]) > WeightedScore(score_of[3])
    /\ culled_img_list = <<3, 2, 1>>

\* C5: no image the trimmer dropped outscores an image it kept.
C5_TrimDropsLowest ==
    Trimmed =>
        \A k \in Range(culled_img_list) :
            \A d \in Range(scored_images) \ Range(culled_img_list) :
                WeightedScore(score_of[k]) >= WeightedScore(score_of[d])

\* four survivors whose scores rank 1st, 4th, 2nd, 3rd, cull_to = 2: the
\* images ranked 3rd and 4th are kept, in that order
C5_Witness ==
    /\ Trimmed
    /\ Len(scored_images) = 4
    /\ cull_to = 2
    /\ WeightedScore(score_of[1]) < WeightedScore(score_of[3])
    /\ WeightedScore(score_of[3]) < WeightedScore(score_of[4])
    /\ WeightedScore(score_of[4]) < WeightedScore(score_of[2])
    /\ culled_img_list = <<4, 2>>

(***************************************************************************)
(* Properties of a whole run (Spec).                                       *)
(***************************************************************************)
\* C6: when a run returns, no image is both culled and kept, every scored
\* image is in exactly one of the culled list and the kept list, exactly
\* once, and the kept list has at most cull_to entries.
C6_CulledKeptPartition ==
    pc = "done" =>
        /\ Range(culled) \cap Range(culled_img_list) = {}
        /\ \A f \in Range(image_files) :
              Occurrences(f, culled \o culled_img_list) = 1
        /\ Len(culled_img_list) <= cull_to

(***************************************************************************)
(* Properties of the quality gate (SpecGate).                              *)
(***************************************************************************)
Gated == pc = "sort_trim"

\* the images the gate was given: the scored ones that were not removed as
\* duplicates
GateInput == Range(image_files) \ Range(duplicates_to_remove)

\* the six checks of the claim
BelowAnyMinimum(v) ==
    \/ v.Overall < 250
    \/ v.Quality < 250
    \/ v.Composition < 275
    \/ v.Lighting < 250
    \/ v.DepthOfField < 250
    \/ v.Content < 260

\* C9: the gate discards an image exactly when one of its six gated scores
\* is below its minimum; an image with every score at or above its minimum
\* is kept; two images that differ in Color only fare alike.
C9_GateIffBelowMinimum ==
    Gated =>
        /\ \A f \in GateInput :
              f \notin Range(scored_images) <=> BelowAnyMinimum(score_of[f])
        /\ \A f \in GateInput :
              f \in Range(scored_images) <=> f \notin Range(culled)
        /\ \A f, h \in GateInput :
              [score_of[f] EXCEPT !.Color = 0] = [score_of[h] EXCEPT !.Color = 0]
                  => (f \in Range(scored_images) <=> h \in Range(scored_images))

\* one image exactly at every minimum with Color 0.00, kept; one that misses
\* the Content minimum alone by 0.01, discarded
C9_Witness ==
    /\ Gated
    /\ \E f \in GateInput :
          /\ score_of[f] = Vec(250, 250, 275, 250, 0, 250, 260)
          /\ f \in Range(scored_images)
    /\ \E f \in GateInput :
          /\ score_of[f] = Vec(250, 250, 275, 250, 1000, 250, 259)
          /\ f \in Range(culled)

\* the categories in the order of the claim, as the printed lines name them
GateOrder ==
    <<"Overall", "Quality", "Composition", "Lighting", "Depth of Field",
      "Content">>

Below(v, category) ==
    CASE category = "Overall" -> v.Overall < 250
      [] category = "Quality" -> v.Quality < 250
      [] category = "Composition" -> v.Composition < 275
      [] category = "Lighting" -> v.Lighting < 250
      [] category = "Depth of Field" -> v.DepthOfField < 250
      [] category = "Content" -> v.Content < 260

\* C10: every image the gate discards is reported exactly once, under the
\* first category of the order Overall, Quality, Composition, Lighting,
\* DepthOfField, Content that it fails, and is in the culled list exactly
\* once; an image the gate keeps is not reported.
C10_GateFirstFailingReason ==
    Gated =>
        \A f \in GateInput :
            LET reports == {k \in 1..Len(removal_log) : removal_log[k][1] = f}
            IN IF f \in Range(scored_images)
               THEN reports = {}
               ELSE /\ Cardinality(reports) = 1
                    /\ Occurrences(f, culled) = 1
                    /\ \A k \in reports :
                          \E c \in 1..Len(GateOrder) :
                             /\ removal_log[k][2] = GateOrder[c]
                             /\ Below(score_of[f], GateOrder[c])
                             /\ \A b \in 1..(c - 1) :
                                   ~Below(score_of[f], GateOrder[b])

\* one image failing on Overall alone, one failing every check but Overall
C10_Witness ==
    /\ Gated
    /\ \E f \in GateInput :
          /\ score_of[f] = Vec(249, 250, 275, 250, 0, 250, 260)
          /\ <<f, "Overall">> \in Range(removal_log)
    /\ \E f \in GateInput :
          /\ score_of[f] = Vec(250, 249, 274, 249, 0, 249, 259)
          /\ <<f, "Quality">> \in Range(removal_log)
          /\ Occurrences(f, culled) = 1

\* C11: the gate is idempotent: run again on the images it kept, the gate
\* loop removes none of them and leaves the scored images as they are.
C11_GateIdempotent ==
    Gated =>
        LET again == GateScan(scored_images)
            keys_again == {again[k][1] : k \in 1..Len(again)}
        IN /\ again = <<>>
           /\ Without(scored_images, keys_again) = scored_images

\* a first pass that removed one image and kept another
C11_Witness ==
    /\ Gated
    /\ removal_log # <<>>
    /\ scored_images # <<>>
    /\ GateScan(scored_images) = <<>>

(***************************************************************************)
(* Properties of a whole run (Spec), continued.                            *)
(***************************************************************************)
\* C12: a run on a directory without images does not end in an error: the
\* grouping yields no group, and when the run is over it has returned the
\* empty kept list.
C12_EmptyInputReturns ==
    image_files = <<>> =>
        /\ pc # "error"
        /\ duplicates = <<>>
        /\ pc \in {"export", "done"} => culled_img_list = <<>>

(***************************************************************************)
(* Properties of find_dups_to_remove (SpecSelect), continued.              *)
(***************************************************************************)
\* C13: a group of one image causes no discard: whatever its scores, its only
\* member is not in the discard list.
C13_SingletonNoDiscard ==
    Selected =>
        \A g \in 1..Len(duplicates) :
            Len(duplicates[g]) = 1
                => duplicates[g][1] \notin Range(duplicates_to_remove)

(***************************************************************************)
(* The stages of a run.  pc names the step that is about to run, so the    *)
(* stage of a state is the stage that step belongs to; "export" and "done" *)
(* are the end of the run, after the trim.                                 *)
(***************************************************************************)
StageOf(p) ==
    CASE p = "dispatch" -> "Start"
      [] p = "score_images" -> "Scoring"
      [] p \in {"gid_read", "gid_loop", "find_duplicates", "gd_build",
                "gd_scan", "gd_bfs", "fpd_build", "fpd_group"} -> "Grouping"
      [] p \in {"find_dups_to_remove", "remove_dups"} -> "SurvivorSelection"
      [] p = "quality_gate" -> "QualityGate"
      [] p = "sort_trim" -> "Trimming"
      [] p \in {"export", "done"} -> "Done"
      [] OTHER -> "Aborted"

\* the order of the claim
ClaimedOrder ==
    <<"Start", "Scoring", "Grouping", "SurvivorSelection", "QualityGate",
      "Trimming", "Done">>

\* the order with the first two stages exchanged
GroupingFirstOrder ==
    <<"Start", "Grouping", "Scoring", "SurvivorSelection", "QualityGate",
      "Trimming", "Done">>

RankIn(order, stage) == CHOOSE k \in 1..Len(order) : order[k] = stage

\* a step stays in its stage, moves to the next stage of the order, or aborts
FollowsOrder(order) ==
    \/ StageOf(pc') = "Aborted"
    \/ /\ StageOf(pc) # "Aborted"
       /\ \/ RankIn(order, StageOf(pc')) = RankIn(order, StageOf(pc))
          \/ RankIn(order, StageOf(pc')) = RankIn(order, StageOf(pc)) + 1

\* C14 as claimed: in every run, whatever the grouping strategy, the stages
\* come in the order Scoring, Grouping, SurvivorSelection, QualityGate,
\* Trimming, Done, none skipped, repeated or revisited; scoring is over
\* before grouping starts.
C14_StageOrder == [][FollowsOrder(ClaimedOrder)]_vars

\* C14 as amended: the stages come in one linear order, none skipped,
\* repeated or revisited.  In the embedding-fast and face-refined strategies
\* the order is Scoring, Grouping, SurvivorSelection, QualityGate, Trimming,
\* Done; in the temporal-burst strategy grouping comes first and is over
\* before scoring starts: Grouping, Scoring, SurvivorSelection, QualityGate,
\* Trimming, Done.
C14_StageOrderPerStrategy ==
    [][IF ExifPath THEN FollowsOrder(GroupingFirstOrder)
       ELSE FollowsOrder(ClaimedOrder)]_vars

\* a burst run that grouped two images, then scored them, and returned one
C14_Witness ==
    /\ pc = "done"
    /\ ExifPath
    /\ \E g \in 1..Len(duplicates) : Len(duplicates[g]) = 2
    /\ num_images = 2
    /\ Len(culled_img_list) = 1

\* the burst pipeline has been chosen and its grouping has returned
BurstGrouped ==
    ExifPath /\ pc \notin {"dispatch", "gid_read", "gid_loop"}

\* find_dups_to_remove has returned
PastSelection ==
    pc \in {"remove_dups", "quality_gate", "sort_trim", "export", "done"}

Unparseable(f) == exif_of[f].kind # "ok"

\* some image's provider datum is unavailable: a grouped image has no
\* scores, or the burst pipeline meets a timestamp it cannot read or parse
ProviderFailure ==
    \/ ~(Range(Flatten(duplicates)) \subseteq scorable)
    \/ ExifPath /\ \E f \in Range(image_files) : Unparseable(f)

\* C15 as claimed: a run with a provider failure is aborted: it never gets
\* as far as a kept list.
C15_ProviderFailureAborts ==
    pc \in {"export", "done"} => ~ProviderFailure

\* C15 as amended: a run in which a grouped image has no scores aborts in
\* find_dups_to_remove and gets no further; an image whose timestamp the
\* burst pipeline cannot parse is left out of every group, is scored all the
\* same when score_images finds it, and the run goes on.
C15_AbortOnMissingScoreSkipOnBadStamp ==
    /\ PastSelection => Range(Flatten(duplicates)) \subseteq scorable
    /\ BurstGrouped =>
          \A f \in Range(image_files) :
              Unparseable(f) => f \notin Range(Flatten(duplicates))
    /\ (ExifPath /\ PastSelection) =>
          \A f \in scorable :
              Unparseable(f) =>
                  f \in Range(scored_images) \cup Range(culled)

\* a burst run that returned a kept list holding an image whose timestamp
\* does not parse, next to a group of one
C15_Witness ==
    /\ pc = "done"
    /\ ExifPath
    /\ duplicates = <<<<2>>>>
    /\ Unparseable(1)
    /\ 1 \in Range(culled_img_list)

(***************************************************************************)
(* Properties of find_people_duplicates (SpecPeople).                      *)
(***************************************************************************)
\* the adjacency of the current duplicate set has been built
AdjacencyBuilt == pc = "fpd_group"

\* the edge of the claim, from image a to image b
MatchEdge(a, b) ==
    /\ a # b
    /\ Abs(Len(faces[a]) - Len(faces[b])) <= 2
    /\ \A i \in 1..Len(faces[a]) :
          \E j \in 1..Len(faces[b]) : compare_faces(faces[a][i], faces[b][j])

\* C16: find_people_duplicates records an edge from A to another image B
\* exactly when their numbers of face encodings differ by at most 2 and
\* every encoding of A matches an encoding of B, and records it once; an
\* image without encodings has an edge to exactly the other images that
\* have at most 2 encodings.
C16_FaceMatchEdge ==
    AdjacencyBuilt =>
        LET names == Range(duplicates[set_idx])
        IN /\ DOMAIN adjacency = names
           /\ \A a \in names :
                 /\ NoRepeat(adjacency[a])
                 /\ \A b \in names :
                       b \in Range(adjacency[a]) <=> MatchEdge(a, b)
           /\ \A a \in names :
                 faces[a] = <<>> =>
                     \A b \in names \ {a} :
                         b \in Range(adjacency[a]) <=> Len(faces[b]) <= 2

\* an image without faces that has an edge to an image with two faces, which
\* has no edge back, and no edge to an image with three faces
C16_Witness ==
    /\ AdjacencyBuilt
    /\ \E a, b, c \in Range(duplicates[set_idx]) :
          /\ faces[a] = <<>>
          /\ Len(faces[b]) = 2
          /\ Len(faces[c]) = 3
          /\ b \in Range(adjacency[a])
          /\ a \notin Range(adjacency[b])
          /\ c \notin Range(adjacency[a])

(***************************************************************************)
(* Properties of find_dup_imgs at the two thresholds (SpecMono).           *)
(***************************************************************************)
\* both calls have returned: first_duplicates holds the groups found at
\* DUPLICATE_THRESHOLD, duplicates those found at DUP_THRESHOLD_FAST
BothReturned ==
    pc = "find_dups_to_remove" /\ threshold = DUP_THRESHOLD_FAST

\* C17 as claimed: on the same images and similarities, the higher threshold
\* emits no more groups than the lower one.
C17_FewerGroupsAtHigherThreshold ==
    BothReturned => Len(duplicates) <= Len(first_duplicates)

\* C17 as amended: every group emitted at the higher threshold lies within
\* one group emitted at the lower threshold, so the higher threshold groups
\* no image the lower one leaves out and no more images in all; the number
\* of groups is not ordered.
C17_HigherThresholdRefines ==
    BothReturned =>
        /\ \A g \in 1..Len(duplicates) :
              \E h \in 1..Len(first_duplicates) :
                  Range(duplicates[g]) \subseteq Range(first_duplicates[h])
        /\ Len(Flatten(duplicates)) <= Len(Flatten(first_duplicates))

\* one group of four at 0.93 that falls into two groups of two at 0.96
C17_Witness ==
    /\ BothReturned
    /\ Len(first_duplicates) = 1
    /\ Len(first_duplicates[1]) = 4
    /\ Len(duplicates) = 2

(***************************************************************************)
(* Properties of output_files and upload_files_ordered (SpecExport).       *)
(***************************************************************************)
\* the entries that are there and transfer, in list order
RECURSIVE Transferable(_)
Transferable(k) ==
    IF k > Len(files_to_output) THEN <<>>
    ELSE IF file_state[k] = "ok"
         THEN <<files_to_output[k]>> \o Transferable(k + 1)
         ELSE Transferable(k + 1)

\* C18: neither function aborts; each goes through the whole list in order,
\* transferring every entry that can be, whatever came before it, and
\* returns True exactly when every entry was found and transferred.
C18_ExportNonFatal ==
    /\ pc # "error"
    /\ pc = "returned" =>
          /\ fidx = Len(files_to_output) + 1
          /\ transferred = Transferable(1)
          /\ all_success <=> \A k \in 1..Len(files_to_output) :
                                file_state[k] = "ok"

(***************************************************************************)
(* Properties of find_dups_to_remove (SpecSelect): the running maximum.    *)
(***************************************************************************)
\* how many entries of the discard list are members of the group
DiscardedOf(group) ==
    Cardinality({k \in 1..Len(duplicates_to_remove) :
                    duplicates_to_remove[k] \in Range(group)})

SimOf(a, b) == IF a < b THEN sim[<<a, b>>] ELSE sim[<<b, a>>]

\* the images joined to one of S by a path of pairs that are strictly more
\* similar than the threshold
RECURSIVE JoinedTo(_)
JoinedTo(S) ==
    LET T == S \cup {b \in Range(image_files) :
                        \E a \in S : a # b /\ SimOf(a, b) > threshold}
    IN IF T = S THEN S ELSE JoinedTo(T)

SameGroup(a, b) ==
    \E g \in 1..Len(duplicates) :
        a \in Range(duplicates[g]) /\ b \in Range(duplicates[g])

\* C20: two distinct images are in the same group exactly when a path of
\* pairs with similarity strictly above the threshold joins them, a pair
\* exactly at the threshold being no such pair; no image is in two groups or
\* twice in one.
C20_GroupsAreComponents ==
    EmbedReturned =>
        /\ \A a, b \in Range(image_files) :
              a # b => (SameGroup(a, b) <=> b \in JoinedTo({a}))
        /\ NoRepeat(Flatten(duplicates))

\* three images in one group, the first and the last exactly at the
\* threshold and joined through the second only
C20_Witness ==
    /\ EmbedReturned
    /\ Len(image_files) = 3
    /\ sim[<<1, 3>>] = threshold
    /\ sim[<<1, 2>>] > threshold
    /\ sim[<<2, 3>>] > threshold
    /\ Len(duplicates) = 1
    /\ Len(duplicates[1]) = 3

(***************************************************************************)
(* Properties of the groups of find_people_duplicates (SpecPeople).        *)
(***************************************************************************)
\* find_people_duplicates has returned the groups of the one duplicate set
PeopleGrouped == pc = "fpd_build" /\ set_idx = 2 /\ Len(duplicates) = 1

\* the images reachable from the images of S along outgoing edges
RECURSIVE ReachableFrom(_)
ReachableFrom(S) ==
    LET more == S \cup UNION {Range(adjacency[a]) : a \in S}
    IN IF more = S THEN S ELSE ReachableFrom(more)

\* image f is a member of an emitted group
Grouped(f) == \E g \in 1..Len(people_duplicates) : f \in Range(people_duplicates[g])

\* `visited` when the loop of line 605 comes to the k-th image
VisitedBefore(k) == VisitedAfter(adjacency, SubSeq(duplicates[1], 1, k - 1), {})

\* every group has two members or more, begins with an image that has an
\* outgoing edge, holds only images reachable from that image along
\* outgoing edges, and shares no image with another group
GroupsFollowOutgoingEdges ==
    /\ NoRepeat(Flatten(people_duplicates))
    /\ \A g \in 1..Len(people_duplicates) :
          LET group == people_duplicates[g]
          IN /\ Len(group) >= 2
             /\ Range(group) \subseteq Range(duplicates[1])
             /\ Len(adjacency[group[1]]) > 0
             /\ Range(group) \subseteq ReachableFrom({group[1]})

\* an unvisited image whose outgoing edges all lead to visited images is in
\* no group
StartWithoutNewNeighborUngrouped ==
    \A k \in 1..Len(duplicates[1]) :
        LET image == duplicates[1][k]
        IN (/\ image \notin VisitedBefore(k)
            /\ Len(adjacency[image]) > 0
            /\ Range(adjacency[image]) \subseteq VisitedBefore(k))
           => ~Grouped(image)

\* image f has no outgoing edge, has an incoming edge, and all its incoming
\* edges come from images grouped before the loop comes to f
OnlyIncomingFromGrouped(k) ==
    LET image == duplicates[1][k]
        sources == {a \in Range(duplicates[1]) : image \in Range(adjacency[a])}
    IN /\ adjacency[image] = <<>>
       /\ sources # {}
       /\ \A a \in sources : a \in VisitedBefore(k) /\ Grouped(a)

\* C21 as claimed: the groups follow outgoing edges, are of two or more and
\* disjoint, and an image that has only incoming edges, from grouped images,
\* or whose outgoing edges all lead to visited images, is in no group.
C21_IncomingOnlyUngrouped ==
    PeopleGrouped =>
        /\ GroupsFollowOutgoingEdges
        /\ StartWithoutNewNeighborUngrouped
        /\ \A k \in 1..Len(duplicates[1]) :
              OnlyIncomingFromGrouped(k) => ~Grouped(duplicates[1][k])

\* C21 as the code has it: the groups follow outgoing edges, are of two or
\* more and disjoint; an unvisited image whose outgoing edges all lead to
\* visited images is in no group; an image without outgoing edges is in a
\* group exactly when some image has an edge to it.
C21_GroupsFollowOutgoingEdges ==
    PeopleGrouped =>
        /\ GroupsFollowOutgoingEdges
        /\ StartWithoutNewNeighborUngrouped
        /\ \A f \in Range(duplicates[1]) :
              adjacency[f] = <<>> =>
                  (Grouped(f) <=>
                       \E a \in Range(duplicates[1]) : f \in Range(adjacency[a]))

\* image 1 has an edge to image 2 and none back, and they are a group;
\* image 3 has an edge to image 2 only, and is in no group
C21_Witness ==
    /\ PeopleGrouped
    /\ Len(duplicates[1]) = 3
    /\ 2 \in Range(adjacency[1])
    /\ adjacency[2] = <<>>
    /\ adjacency[3] = <<2>>
    /\ people_duplicates = <<<<1, 2>>>>

(***************************************************************************)
(* Properties of the whole run: duplicates stay discarded (Spec).          *)
(***************************************************************************)
\* the removal loop of lines 257-264 is over
DupsRemoved == pc \in {"quality_gate", "sort_trim", "export", "done"}

\* the images the quality gate has discarded
GateDiscarded == {removal_log[k][1] : k \in 1..Len(removal_log)}

\* C22: an image that survivor selection put in the discard list is never
\* in the kept list: once removed it has no score entry any more, is in
\* culled, and is not looked at by the quality gate, whatever becomes of
\* the survivor of its group.
C22_DuplicatesNeverReinstated ==
    \A f \in Range(duplicates_to_remove) :
        /\ f \notin Range(culled_img_list)
        /\ f \notin Range(sorted_images)
        /\ DupsRemoved =>
              /\ f \notin Range(scored_images)
              /\ f \in Range(culled)
              /\ f \notin GateDiscarded

\* a finished run with room in the kept list, where a group of two has lost
\* its second image to survivor selection, though it passes all six
\* thresholds, and its first to the quality gate: nothing of it is kept
C22_Witness ==
    /\ pc = "done"
    /\ cull_to >= 1
    /\ duplicates = <<<<1, 2>>>>
    /\ duplicates_to_remove = <<2>>
    /\ ~BelowAnyMinimum(score_of[2])
    /\ 1 \in GateDiscarded
    /\ culled_img_list = <<>>

(***************************************************************************)
(* Properties of find_dups_to_remove and the removal loop (SpecSelect).    *)
(***************************************************************************)
\* the groups share no image and every member has a score entry
DisjointAndScored ==
    /\ NoRepeat(Flatten(duplicates))
    /\ Range(Flatten(duplicates)) \subseteq Range(image_files)

\* the removal loop of lines 257-264 has gone through the discard list
RemovalDone == pc = "quality_gate"

\* C23: for pairwise disjoint groups whose members all have a score entry,
\* the discard list holds no image twice and group members only, and the
\* loop that deletes each discarded image from the scored images meets no
\* missing key: it ends with every discarded image deleted and in culled.
C23_DiscardListSafeToDelete ==
    DisjointAndScored =>
        /\ pc # "error"
        /\ NoRepeat(duplicates_to_remove)
        /\ Range(duplicates_to_remove) \subseteq Range(Flatten(duplicates))
        /\ RemovalDone =>
              /\ culled = duplicates_to_remove
              /\ Range(scored_images) =
                     Range(image_files) \ Range(duplicates_to_remove)
              /\ NoRepeat(scored_images)

\* two groups that each lose an image, both deleted without a missing key
C23_Witness ==
    /\ RemovalDone
    /\ DisjointAndScored
    /\ Len(duplicates) = 2
    /\ Len(duplicates_to_remove) = 2
    /\ \A g \in 1..2 :
          Range(duplicates[g]) \cap Range(duplicates_to_remove) # {}
    /\ culled = duplicates_to_remove
    /\ Len(scored_images) = Len(image_files) - 2

====
